---- MODULE Spec2Model ----
(***************************************************************************)
(* Model of the driver-schedule / bank-transaction reconciliation engine   *)
(* (reconciliation_engine.py) and of the ReconciliationData accumulator    *)
(* (reconciliation_parser.py).                                             *)
(*                                                                         *)
(* Representation                                                          *)
(*   - a str is a sequence of one-character strings;                       *)
(*   - an Optional value is << >> (None) or <<v>>;                          *)
(*   - a datetime is a day number (the parsers only build midnights);      *)
(*   - a Decimal amount is an integer number of tenths of a cent, so that  *)
(*     Decimal('0.01') is 10 and sub-cent differences exist;               *)
(*   - the identity of a Python object is the field id: its position in    *)
(*     the order in which the records were handed to add_*.                *)
(***************************************************************************)
EXTENDS Integers, Sequences, FiniteSets, TLC

VARIABLES payment_remittances, bank_transactions, driver_schedules,
          report, rerun, pc,
          name, respelled, edits, name_normalized, normalized, renormalized, npc,
          all_loads, all_payments, all_deposits, result, rpc,
          statement, transactions, bpc,
          thread_transactions, driver_loads, clean_result, cpc

vars == <<payment_remittances, bank_transactions, driver_schedules,
          report, rerun, pc,
          name, respelled, edits, name_normalized, normalized, renormalized, npc,
          all_loads, all_payments, all_deposits, result, rpc,
          statement, transactions, bpc,
          thread_transactions, driver_loads, clean_result, cpc>>

dataVars == <<payment_remittances, bank_transactions, driver_schedules>>
engineVars == <<payment_remittances, bank_transactions, driver_schedules,
                report, rerun, pc>>
normVars == <<name, respelled, edits, name_normalized, normalized, renormalized, npc>>
refVars == <<all_loads, all_payments, all_deposits, result, rpc>>
bankVars == <<statement, transactions, bpc>>
cleanVars == <<thread_transactions, driver_loads, clean_result, cpc>>

\* the variables of the load-reference script and of the statement parser
\* while they are not in use
RefIdle ==
    /\ all_loads = << >> /\ all_payments = << >> /\ all_deposits = << >>
    /\ result = << >> /\ rpc = "off"
BankIdle ==
    /\ statement = << >> /\ transactions = << >> /\ bpc = "off"
CleanIdle ==
    /\ thread_transactions = << >> /\ driver_loads = << >>
    /\ clean_result = << >> /\ cpc = "off"

(***************************************************************************)
(* Bounds                                                                  *)
(***************************************************************************)
\* records handed to one ReconciliationData, all three collections together
MaxRecords == 4
\* respelling edits applied to a name before it is normalized
MaxEdits == 2
\* lines of the schedule, remittance and statement files read by
\* reconcile_loads_payments, all files together
MaxLines == 4
\* lines of the bank statement read by BankStatementParser
MaxStatementLines == 3
\* lines read by reconcile_from_clean_data that give a record
MaxCleanLines == 4

(***************************************************************************)
(* str operations                                                          *)
(***************************************************************************)
LowerCase == <<"a","b","c","d","e","f","g","h","i","j","k","l","m",
               "n","o","p","q","r","s","t","u","v","w","x","y","z">>
UpperCase == <<"A","B","C","D","E","F","G","H","I","J","K","L","M",
               "N","O","P","Q","R","S","T","U","V","W","X","Y","Z">>

\* str.upper() and str.lower() on the letters (lower is used to respell only)
UpperMap == [c \in {LowerCase[i] : i \in DOMAIN LowerCase} |->
                UpperCase[CHOOSE i \in DOMAIN LowerCase : LowerCase[i] = c]]
LowerMap == [c \in {UpperCase[i] : i \in DOMAIN UpperCase} |->
                LowerCase[CHOOSE i \in DOMAIN UpperCase : UpperCase[i] = c]]

UpperChar(c) == IF c \in DOMAIN UpperMap THEN UpperMap[c] ELSE c
LowerChar(c) == IF c \in DOMAIN LowerMap THEN LowerMap[c] ELSE c

\* s.upper()
Upper(s) == [i \in DOMAIN s |-> UpperChar(s[i])]

\* s.replace(c, '')
Remove(s, c) == SelectSeq(s, LAMBDA ch : ch # c)

\* s.replace(' ', '').replace('-', '')
StripSeparators(s) == Remove(Remove(s, " "), "-")

(***************************************************************************)
(* ReconciliationEngine.__init__ : the alias table, in insertion order     *)
(***************************************************************************)
driver_name_map_wrong_canonical ==
    << [key |-> <<"R","I","C","H","-","L","I","T","T","L","E">>,
        value |-> <<"B","i","g"," ","R","i","c","h">>],
       [key |-> <<"B","I","G","R","I","C","H">>,
        value |-> <<"R","i","c","h">>],
       [key |-> <<"B","I","G"," ","R","I","C","H">>,
        value |-> <<"R","i","c","h">>],
       [key |-> <<"S","T","E","V","E","M","A","R","T","I","N">>,
        value |-> <<"S","t","e","v","e">>],
       [key |-> <<"S","T","E","V","E"," ","M","A","R","T","I","N">>,
        value |-> <<"S","t","e","v","e">>],
       [key |-> <<"T","O","N","Y">>,
        value |-> <<"T","o","n","y">>] >>

driver_name_map ==
    << [key |-> <<"R","I","C","H","-","L","I","T","T","L","E">>,
        value |-> <<"L","i","t","t","l","e"," ","R","i","c","h">>],
       [key |-> <<"B","I","G","R","I","C","H">>,
        value |-> <<"R","i","c","h">>],
       [key |-> <<"B","I","G"," ","R","I","C","H">>,
        value |-> <<"R","i","c","h">>],
       [key |-> <<"S","T","E","V","E","M","A","R","T","I","N">>,
        value |-> <<"S","t","e","v","e">>],
       [key |-> <<"S","T","E","V","E"," ","M","A","R","T","I","N">>,
        value |-> <<"S","t","e","v","e">>],
       [key |-> <<"T","O","N","Y">>,
        value |-> <<"T","o","n","y">>] >>

\* key.replace(' ', '').replace('-', '') of every entry
StrippedKeys == [i \in DOMAIN driver_name_map |->
                    StripSeparators(driver_name_map[i].key)]

\* the indices of the alias entries whose stripped key equals name_upper
AliasHits(name_upper) ==
    {i \in DOMAIN driver_name_map : StrippedKeys[i] = name_upper}

\* normalize_driver_name without the upper()
normalize_driver_name_no_upper(s) ==
    LET name_upper == StripSeparators(s)
        hits == AliasHits(name_upper)
    IN  IF hits # {}
        THEN driver_name_map[CHOOSE i \in hits : \A j \in hits : i <= j].value
        ELSE s

\* normalize_driver_name returning the stripped upper-cased name on a miss
normalize_driver_name_returns_upper(s) ==
    LET name_upper == StripSeparators(Upper(s))
        hits == AliasHits(name_upper)
    IN  IF hits # {}
        THEN driver_name_map[CHOOSE i \in hits : \A j \in hits : i <= j].value
        ELSE name_upper

\* normalize_driver_name(name): the value of the first entry, in dict order,
\* whose stripped key equals the stripped upper-cased name; else the name
normalize_driver_name(s) ==
    LET name_upper == StripSeparators(Upper(s))
        hits == AliasHits(name_upper)
    IN  IF hits # {}
        THEN driver_name_map[CHOOSE i \in hits : \A j \in hits : i <= j].value
        ELSE s

(***************************************************************************)
(* Records handed to the engine                                            *)
(***************************************************************************)
BIGRICH == <<"B","I","G","R","I","C","H">>
Rich == <<"R","i","c","h">>
Steve == <<"S","t","e","v","e">>

\* DriverScheduleEntry(date, driver, amount): amount is Optional[Decimal]
ScheduleInputs ==
    {[date |-> 0, driver |-> BIGRICH, amount |-> <<500000>>],
     [date |-> 100, driver |-> BIGRICH, amount |-> <<500000>>],
     [date |-> 100, driver |-> Steve, amount |-> <<500000>>],
     [date |-> 0, driver |-> BIGRICH, amount |-> << >>],
     [date |-> 100, driver |-> Steve, amount |-> <<0>>]}

\* BankTransaction(transaction_date, amount, recipient): recipient is
\* Optional[str]; the amounts differ from 500.00 by nothing, by half a cent
\* and by one cent
BankInputs ==
    {[transaction_date |-> 0, recipient |-> <<Rich>>, amount |-> 500000],
     [transaction_date |-> 90, recipient |-> <<Rich>>, amount |-> 500000],
     [transaction_date |-> 91, recipient |-> <<Rich>>, amount |-> 500000],
     [transaction_date |-> 90, recipient |-> <<Steve>>, amount |-> 500000],
     [transaction_date |-> 90, recipient |-> <<Rich>>, amount |-> 500005],
     [transaction_date |-> 90, recipient |-> <<Rich>>, amount |-> 500010],
     [transaction_date |-> 91, recipient |-> << >>, amount |-> 500000]}

\* PaymentRemittance(payment_date, payment_amount)
PaymentInputs == [payment_date : {0, 90}, payment_amount : {1200000}]

\* the values of lookback_days passed to reconcile()
DefaultLookback == 90
Lookbacks == {DefaultLookback, 120}

WithId(rec, n) == [f \in (DOMAIN rec) \cup {"id"} |->
                      IF f = "id" THEN n ELSE rec[f]]

\* normalize_driver_name on the names the records carry, evaluated once
EngineNames == {BIGRICH, Rich, Steve}
NormalizedNames == [n \in EngineNames |-> normalize_driver_name(n)]
Normalized(n) == IF n \in EngineNames THEN NormalizedNames[n]
                 ELSE normalize_driver_name(n)

(***************************************************************************)
(* list.sort(key=...): stable, ascending                                   *)
(***************************************************************************)
Min(S) == CHOOSE m \in S : \A e \in S : m <= e

SortUnstable(s, key) ==
    LET RECURSIVE Build(_)
        Build(ks) ==
            IF ks = {} THEN << >>
            ELSE LET m == Min(ks)
                     grp == SelectSeq(s, LAMBDA x : x[key] = m)
                 IN  [i \in DOMAIN grp |-> grp[Len(grp) + 1 - i]]
                     \o Build(ks \ {m})
    IN  Build({s[i][key] : i \in DOMAIN s})

Sort(s, key) ==
    LET RECURSIVE Build(_)
        Build(ks) ==
            IF ks = {} THEN << >>
            ELSE LET m == Min(ks)
                 IN  SelectSeq(s, LAMBDA x : x[key] = m) \o Build(ks \ {m})
    IN  Build({s[i][key] : i \in DOMAIN s})

(***************************************************************************)
(* ReconciliationEngine.reconcile : the matching loop                      *)
(***************************************************************************)
Cent == 10
ScoreBase == 100

Abs(x) == IF x < 0 THEN -x ELSE x

\* "if not schedule_entry.amount": None and Decimal('0') are both falsy
HasAmount(entry) == entry.amount # << >> /\ entry.amount[1] # 0

\* amounts one cent apart taken for equal
AmountsMatchWithinCent(bank_trans, entry) ==
    Abs(bank_trans.amount - entry.amount[1]) <= Cent

\* abs(bank_trans.amount - schedule_entry.amount) < Decimal('0.01')
AmountsMatch(bank_trans, entry) ==
    Abs(bank_trans.amount - entry.amount[1]) < Cent

\* abs((bank_trans.transaction_date - schedule_entry.date).days)
DateDiff(bank_trans, entry) == Abs(bank_trans.transaction_date - entry.date)

\* a score that is not positive at 90 days
MatchScoreHalf(date_diff) == (ScoreBase \div 2) - date_diff

\* score = 100 - date_diff
MatchScore(date_diff) == ScoreBase - date_diff

\* "if date_diff <= lookback_days"
WithinLookbackStrict(date_diff, lookback) == date_diff < lookback

WithinLookback(date_diff, lookback) == date_diff <= lookback

\* "if score > best_match_score"
IsBetterOrEqual(score, best_match_score) == score >= best_match_score

IsBetter(score, best_match_score) == score > best_match_score

\* "if i in matched_bank_trans: continue"
AlreadyMatchedNever(i, matched) == FALSE

AlreadyMatched(i, matched) == i \in matched

\* the scan of one schedule entry over the bank transactions;
\* best = 0 stands for None, raised for the AttributeError of None.upper()
ScanBankTransactions(entry, txns, matched, lookback) ==
    LET driver_normalized == Normalized(entry.driver)
        RECURSIVE Scan(_, _, _)
        Scan(i, best_match, best_match_score) ==
            IF i > Len(txns)
            THEN [best_match |-> best_match, raised |-> FALSE]
            ELSE IF AlreadyMatched(i, matched)
            THEN Scan(i + 1, best_match, best_match_score)
            ELSE IF txns[i].recipient = << >>
            THEN [best_match |-> best_match, raised |-> TRUE]
            ELSE IF driver_normalized # Normalized(txns[i].recipient[1])
            THEN Scan(i + 1, best_match, best_match_score)
            ELSE IF /\ AmountsMatch(txns[i], entry)
                    /\ WithinLookback(DateDiff(txns[i], entry), lookback)
                    /\ IsBetter(MatchScore(DateDiff(txns[i], entry)),
                                best_match_score)
            THEN Scan(i + 1, i, MatchScore(DateDiff(txns[i], entry)))
            ELSE Scan(i + 1, best_match, best_match_score)
    IN  Scan(1, 0, 0)

\* "matched_bank_trans = set()" at the start of a run
InitialMatchedKept ==
    IF report = << >> THEN {}
    ELSE {i \in DOMAIN bank_transactions :
            \E m \in DOMAIN report[1].full_matches :
               report[1].full_matches[m].bank_transaction.id
                 = bank_transactions[i].id}

InitialMatched == {}

\* "for schedule_entry in self.data.driver_schedules": the state of the loop
\* after the entries 1..k, as [full_matches, missing_bank_transactions,
\* matched_bank_trans, raised]
MatchSchedules(scheds, txns, lookback) ==
    LET RECURSIVE Loop(_, _)
        Loop(k, acc) ==
            IF k > Len(scheds) \/ acc.raised THEN acc
            ELSE IF ~HasAmount(scheds[k]) THEN Loop(k + 1, acc)
            ELSE LET r == ScanBankTransactions(scheds[k], txns,
                                               acc.matched_bank_trans, lookback)
                 IN  IF r.raised
                     THEN [acc EXCEPT !.raised = TRUE]
                     ELSE IF r.best_match # 0
                     THEN Loop(k + 1,
                            [acc EXCEPT
                               !.full_matches = Append(@,
                                   [driver_entry |-> scheds[k],
                                    payment_remittance |-> << >>,
                                    bank_transaction |-> txns[r.best_match],
                                    match_type |-> "FULL"]),
                               !.matched_bank_trans = @ \cup {r.best_match}])
                     ELSE Loop(k + 1,
                            [acc EXCEPT
                               !.missing_bank_transactions = Append(@, scheds[k])])
    IN  Loop(1, [full_matches |-> << >>,
                 missing_bank_transactions |-> << >>,
                 matched_bank_trans |-> InitialMatched,
                 raised |-> FALSE])

\* "for i, bank_trans in enumerate(...): if i not in matched_bank_trans"
OrphanBankTransactionsAll(txns, matched) == txns

OrphanBankTransactions(txns, matched) ==
    LET RECURSIVE Rest(_)
        Rest(i) == IF i > Len(txns) THEN << >>
                   ELSE IF i \in matched THEN Rest(i + 1)
                   ELSE <<txns[i]>> \o Rest(i + 1)
    IN  Rest(1)

(***************************************************************************)
(* ReconciliationEngine._build_driver_summaries                            *)
(***************************************************************************)
\* sum(...) of a sequence of numbers
Sum(s) ==
    LET RECURSIVE Acc(_)
        Acc(i) == IF i > Len(s) THEN 0 ELSE s[i] + Acc(i + 1)
    IN  Acc(1)

\* "if entry.amount: ... += entry.amount"
AmountOrZero(entry) == IF HasAmount(entry) THEN entry.amount[1] ELSE 0

\* the amounts of the entries of s that have one, 0 for the others
Amounts(s) == [i \in DOMAIN s |-> AmountOrZero(s[i])]

\* the entries of s whose driver is written d
OfDriverAsWritten(s, d) == SelectSeq(s, LAMBDA e : e.driver = d)

\* the entries of s whose normalized driver is d
OfDriver(s, d) == SelectSeq(s, LAMBDA e : Normalized(e.driver) = d)

\* summaries that leave the unpaid loads out
build_driver_summaries_without_unpaid(scheds, full_matches, missing) ==
    LET paid == [i \in DOMAIN full_matches |-> full_matches[i].driver_entry]
        keys == {Normalized(scheds[i].driver) : i \in DOMAIN scheds}
    IN  [d \in keys |->
           [scheduled_loads |-> Len(OfDriver(scheds, d)),
            scheduled_amount |-> Sum(Amounts(OfDriver(scheds, d))),
            paid_loads |-> Len(OfDriver(paid, d)),
            paid_amount |-> Sum(Amounts(OfDriver(paid, d))),
            unpaid_loads |-> 0,
            unpaid_amount |-> 0]]

build_driver_summaries(scheds, full_matches, missing) ==
    LET paid == [i \in DOMAIN full_matches |-> full_matches[i].driver_entry]
        keys == {Normalized(scheds[i].driver) : i \in DOMAIN scheds}
                \cup {Normalized(paid[i].driver) : i \in DOMAIN paid}
                \cup {Normalized(missing[i].driver) : i \in DOMAIN missing}
    IN  [d \in keys |->
           [scheduled_loads |-> Len(OfDriver(scheds, d)),
            scheduled_amount |-> Sum(Amounts(OfDriver(scheds, d))),
            paid_loads |-> Len(OfDriver(paid, d)),
            paid_amount |-> Sum(Amounts(OfDriver(paid, d))),
            unpaid_loads |-> Len(OfDriver(missing, d)),
            unpaid_amount |-> Sum(Amounts(OfDriver(missing, d)))]]

\* ReconciliationEngine._find_orphan_payments
find_orphan_payments == << >>

(***************************************************************************)
(* ReconciliationData and the calls on it                                  *)
(***************************************************************************)
Records == Len(payment_remittances) + Len(bank_transactions)
           + Len(driver_schedules)

Init ==
    /\ payment_remittances = << >>
    /\ bank_transactions = << >>
    /\ driver_schedules = << >>
    /\ report = << >>
    /\ rerun = FALSE
    /\ pc = "ingest"
    /\ name = << >> /\ respelled = << >> /\ edits = 0
    /\ name_normalized = << >> /\ normalized = << >> /\ renormalized = << >>
    /\ npc = "off"
    /\ RefIdle /\ BankIdle /\ CleanIdle

\* ReconciliationData.add_payment_remittances([p])
add_payment_remittances ==
    /\ pc \in {"ingest", "done"}
    /\ Records < MaxRecords
    /\ \E p \in PaymentInputs :
         payment_remittances' =
            Append(payment_remittances, WithId(p, Len(payment_remittances) + 1))
    /\ pc' = "ingest"
    /\ report' = << >>
    /\ rerun' = FALSE
    /\ UNCHANGED <<cleanVars, bank_transactions, driver_schedules, normVars, refVars, bankVars>>

\* ReconciliationData.add_bank_transactions([t])
add_bank_transactions ==
    /\ pc \in {"ingest", "done"}
    /\ Records < MaxRecords
    /\ \E t \in BankInputs :
         bank_transactions' =
            Append(bank_transactions, WithId(t, Len(bank_transactions) + 1))
    /\ pc' = "ingest"
    /\ report' = << >>
    /\ rerun' = FALSE
    /\ UNCHANGED <<cleanVars, payment_remittances, driver_schedules, normVars, refVars, bankVars>>

\* ReconciliationData.add_driver_schedules([s])
add_driver_schedules ==
    /\ pc \in {"ingest", "done"}
    /\ Records < MaxRecords
    /\ \E e \in ScheduleInputs :
         driver_schedules' =
            Append(driver_schedules, WithId(e, Len(driver_schedules) + 1))
    /\ pc' = "ingest"
    /\ report' = << >>
    /\ rerun' = FALSE
    /\ UNCHANGED <<cleanVars, payment_remittances, bank_transactions, normVars, refVars, bankVars>>

\* ReconciliationEngine.reconcile(lookback_days), the whole call: pc is
\* "done" when it returned a report and "raised" when it ended in an exception
reconcile ==
    /\ pc \in {"ingest", "done"}
    /\ \E lookback \in Lookbacks :
         LET payments == Sort(payment_remittances, "payment_date")
             txns == Sort(bank_transactions, "transaction_date")
             scheds == Sort(driver_schedules, "date")
             m == MatchSchedules(scheds, txns, lookback)
         IN  /\ payment_remittances' = payments
             /\ bank_transactions' = txns
             /\ driver_schedules' = scheds
             /\ IF m.raised
                THEN /\ pc' = "raised"
                     /\ report' = << >>
                ELSE /\ pc' = "done"
                     /\ report' =
                          << [lookback_days |-> lookback,
                              total_remittances_received |->
                                 Sum([i \in DOMAIN payments |-> payments[i].payment_amount]),
                              total_paid_to_drivers |->
                                 Sum([i \in DOMAIN txns |-> txns[i].amount]),
                              total_scheduled_amount |->
                                 Sum(Amounts(scheds)),
                              full_matches |-> m.full_matches,
                              missing_bank_transactions |->
                                 m.missing_bank_transactions,
                              orphan_bank_transactions |->
                                 OrphanBankTransactions(txns, m.matched_bank_trans),
                              driver_summaries |->
                                 build_driver_summaries(scheds, m.full_matches,
                                     m.missing_bank_transactions),
                              orphan_payments |-> find_orphan_payments] >>
    /\ rerun' = (pc = "done")
    /\ UNCHANGED <<cleanVars, normVars, refVars, bankVars>>

Next ==
    \/ add_payment_remittances
    \/ add_bank_transactions
    \/ add_driver_schedules
    \/ reconcile

Spec == Init /\ [][Next]_vars

(***************************************************************************)
(* normalize_driver_name as a function of its argument: a name is chosen,  *)
(* respelled (case of a letter, a space or a hyphen inserted), and both    *)
(* spellings are normalized, the result once more                          *)
(***************************************************************************)
NameInputs ==
    { <<"B","I","G"," ","R","I","C","H">>,
      <<"B","i","g","R","i","c","h">>,
      BIGRICH, Rich, Steve,
      <<"r","i","c","h","-","l","i","t","t","l","e">>,
      <<"L","i","t","t","l","e"," ","R","i","c","h">>,
      <<"S","t","e","v","e"," ","M","a","r","t","i","n">>,
      <<"T","o","n","y">>,
      <<"J","o","-","A","n","n">>,
      << >> }

InsertAt(s, i, c) == SubSeq(s, 1, i - 1) \o <<c>> \o SubSeq(s, i, Len(s))

SwapCase(c) == IF UpperChar(c) # c THEN UpperChar(c) ELSE LowerChar(c)

InitNorm ==
    /\ payment_remittances = << >>
    /\ bank_transactions = << >>
    /\ driver_schedules = << >>
    /\ report = << >>
    /\ rerun = FALSE
    /\ pc = "off"
    /\ name \in NameInputs
    /\ respelled = name
    /\ edits = 0
    /\ name_normalized = << >> /\ normalized = << >> /\ renormalized = << >>
    /\ npc = "input"
    /\ RefIdle /\ BankIdle /\ CleanIdle

\* the caller writes the name with a space or a hyphen more
insert_separator ==
    /\ npc = "input"
    /\ edits < MaxEdits
    /\ \E i \in 1..(Len(respelled) + 1), c \in {" ", "-"} :
          respelled' = InsertAt(respelled, i, c)
    /\ edits' = edits + 1
    /\ UNCHANGED <<cleanVars, engineVars, refVars, bankVars,
                   name, name_normalized, normalized, renormalized, npc>>

\* the caller writes one letter of the name in the other case
change_case ==
    /\ npc = "input"
    /\ edits < MaxEdits
    /\ \E i \in DOMAIN respelled :
          /\ SwapCase(respelled[i]) # respelled[i]
          /\ respelled' = [respelled EXCEPT ![i] = SwapCase(@)]
    /\ edits' = edits + 1
    /\ UNCHANGED <<cleanVars, engineVars, refVars, bankVars,
                   name, name_normalized, normalized, renormalized, npc>>

\* normalize_driver_name(name), normalize_driver_name(respelled) and
\* normalize_driver_name of the latter's result
normalize ==
    /\ npc = "input"
    /\ name_normalized' = normalize_driver_name(name)
    /\ normalized' = normalize_driver_name(respelled)
    /\ renormalized' = normalize_driver_name(normalize_driver_name(respelled))
    /\ npc' = "normalized"
    /\ UNCHANGED <<cleanVars, engineVars, refVars, bankVars, name, respelled, edits>>

NextNorm ==
    \/ insert_separator
    \/ change_case
    \/ normalize

SpecNorm == InitNorm /\ [][NextNorm]_vars

(***************************************************************************)
(* Vocabulary of the properties                                            *)
(***************************************************************************)
Done == pc = "done"
Rep == report[1]

Ids(s) == {s[i].id : i \in DOMAIN s}

\* the position in the sequence s of the record whose id is n
IndexOf(s, n) == CHOOSE i \in DOMAIN s : s[i].id = n

\* the number of schedule entries, among the FULL matches and among the
\* missing ones, that are the entry e
TimesMatched(e) ==
    Cardinality({i \in DOMAIN Rep.full_matches :
                    Rep.full_matches[i].driver_entry.id = e.id})
TimesMissing(e) ==
    Cardinality({i \in DOMAIN Rep.missing_bank_transactions :
                    Rep.missing_bank_transactions[i].id = e.id})

\* the number of FULL matches and of orphans that are the transaction t
TimesPaid(t) ==
    Cardinality({i \in DOMAIN Rep.full_matches :
                    Rep.full_matches[i].bank_transaction.id = t.id})
TimesOrphan(t) ==
    Cardinality({i \in DOMAIN Rep.orphan_bank_transactions :
                    Rep.orphan_bank_transactions[i].id = t.id})

\* the qualification rule of the matcher as the specification words it, for a
\* lookback window of w days
Qualifies(e, t, w) ==
    /\ e.amount # << >>
    /\ t.recipient # << >>
    /\ normalize_driver_name(e.driver) = normalize_driver_name(t.recipient[1])
    /\ Abs(t.amount - e.amount[1]) < Cent
    /\ Abs(t.transaction_date - e.date) <= w

\* one schedule entry and one bank transaction of the same canonical driver
\* and the same amount, the transaction k days after the load
OnePair(k) ==
    /\ Len(driver_schedules) = 1 /\ Len(bank_transactions) = 1
    /\ driver_schedules[1].amount # << >>
    /\ bank_transactions[1].recipient # << >>
    /\ normalize_driver_name(driver_schedules[1].driver)
         = normalize_driver_name(bank_transactions[1].recipient[1])
    /\ bank_transactions[1].amount = driver_schedules[1].amount[1]
    /\ bank_transactions[1].transaction_date - driver_schedules[1].date = k

(***************************************************************************)
(* Properties of reconcile()                                               *)
(***************************************************************************)
\* C1: after reconcile(), every driver summary has scheduled_loads =
\* paid_loads + unpaid_loads and scheduled_amount = paid_amount +
\* unpaid_amount.
C1_Conservation ==
    Done =>
      \A d \in DOMAIN Rep.driver_summaries :
         LET sm == Rep.driver_summaries[d]
         IN  /\ sm.scheduled_loads = sm.paid_loads + sm.unpaid_loads
             /\ sm.scheduled_amount = sm.paid_amount + sm.unpaid_amount

\* C2: in one run no bank transaction is the bank_transaction of two FULL
\* matches, and no schedule entry occurs twice among the FULL matches and
\* the missing entries taken together.
C2_AtMostOneMatch ==
    Done =>
      /\ \A t \in Ids(bank_transactions) :
            Cardinality({i \in DOMAIN Rep.full_matches :
                            Rep.full_matches[i].bank_transaction.id = t}) <= 1
      /\ \A i \in DOMAIN driver_schedules :
            TimesMatched(driver_schedules[i])
              + TimesMissing(driver_schedules[i]) <= 1

\* two entries of one driver were both matched, each with its own transaction
C2_Witness ==
    /\ Done
    /\ Len(Rep.full_matches) = 2
    /\ Rep.full_matches[1].driver_entry.driver
         = Rep.full_matches[2].driver_entry.driver
    /\ Rep.full_matches[1].bank_transaction.transaction_date
         = Rep.full_matches[2].bank_transaction.transaction_date

\* C3: with lookback_days = 90, one load with an amount and one transaction
\* of the same canonical driver and amount dated k days later give exactly
\* one FULL match when 0 <= k <= 90, and a missing load and an orphan
\* transaction when k = 91.
C3_LookbackBoundary ==
    (Done /\ Rep.lookback_days = DefaultLookback) =>
      /\ \A k \in 0..DefaultLookback :
            OnePair(k) =>
              /\ Len(Rep.full_matches) = 1
              /\ Rep.full_matches[1].driver_entry = driver_schedules[1]
              /\ Rep.full_matches[1].bank_transaction = bank_transactions[1]
              /\ Rep.missing_bank_transactions = << >>
              /\ Rep.orphan_bank_transactions = << >>
      /\ OnePair(DefaultLookback + 1) =>
              /\ Rep.full_matches = << >>
              /\ Rep.missing_bank_transactions = driver_schedules
              /\ Rep.orphan_bank_transactions = bank_transactions

\* the driver "BIGRICH" was paid as "Rich" exactly 90 days after the load
C3_Witness ==
    /\ Done /\ Rep.lookback_days = DefaultLookback
    /\ OnePair(DefaultLookback)
    /\ driver_schedules[1].driver = BIGRICH
    /\ bank_transactions[1].recipient = <<Rich>>
    /\ Len(Rep.full_matches) = 1

\* C4: for every lookback L passed to reconcile(), a load with an amount for
\* which exactly one transaction qualifies (same canonical driver, amounts
\* less than a cent apart, at most L days apart), a transaction that
\* qualifies for no other load, is a FULL match with that transaction.
C4_LookbackConfigurable ==
    Done =>
      \A i \in DOMAIN driver_schedules, j \in DOMAIN bank_transactions :
         LET e == driver_schedules[i]
             t == bank_transactions[j]
             w == Rep.lookback_days
         IN  ( /\ HasAmount(e)
               /\ Qualifies(e, t, w)
               /\ \A j2 \in DOMAIN bank_transactions :
                     Qualifies(e, bank_transactions[j2], w) => j2 = j
               /\ \A i2 \in DOMAIN driver_schedules :
                     Qualifies(driver_schedules[i2], t, w) => i2 = i )
             => \E m \in DOMAIN Rep.full_matches :
                   /\ Rep.full_matches[m].driver_entry.id = e.id
                   /\ Rep.full_matches[m].bank_transaction.id = t.id

\* C5: the transaction selected for a load is, among the transactions that
\* qualified and were not consumed by an earlier load, one with the smallest
\* day difference, and the first of those in the sorted list.
C5_ClosestThenFirst ==
    Done =>
      \A m \in DOMAIN Rep.full_matches :
         LET e == Rep.full_matches[m].driver_entry
             sel == IndexOf(bank_transactions,
                            Rep.full_matches[m].bank_transaction.id)
             consumed == {Rep.full_matches[n].bank_transaction.id : n \in 1..(m - 1)}
         IN  \A j \in DOMAIN bank_transactions :
                ( /\ bank_transactions[j].id \notin consumed
                  /\ Qualifies(e, bank_transactions[j], Rep.lookback_days) )
                => \/ DateDiff(bank_transactions[sel], e)
                        < DateDiff(bank_transactions[j], e)
                   \/ /\ DateDiff(bank_transactions[sel], e)
                           = DateDiff(bank_transactions[j], e)
                      /\ sel <= j

\* a later transaction of the list was preferred to an earlier qualifying one
C5_Witness ==
    /\ Done
    /\ \E m \in DOMAIN Rep.full_matches :
         LET e == Rep.full_matches[m].driver_entry
             sel == IndexOf(bank_transactions,
                            Rep.full_matches[m].bank_transaction.id)
         IN  /\ m = 1
             /\ \E j \in 1..(sel - 1) :
                   /\ Qualifies(e, bank_transactions[j], Rep.lookback_days)
                   /\ DateDiff(bank_transactions[sel], e)
                        < DateDiff(bank_transactions[j], e)
             /\ \E j \in (sel + 1)..Len(bank_transactions) :
                   /\ Qualifies(e, bank_transactions[j], Rep.lookback_days)
                   /\ DateDiff(bank_transactions[sel], e)
                        = DateDiff(bank_transactions[j], e)

\* C6: after reconcile(), every load whose amount is not None is the
\* driver_entry of exactly one FULL match or one element of
\* missing_bank_transactions, never both and never neither.
C6_LoadClassifiedOnce ==
    Done =>
      \A i \in DOMAIN driver_schedules :
         driver_schedules[i].amount # << >> =>
            TimesMatched(driver_schedules[i])
              + TimesMissing(driver_schedules[i]) = 1

\* C7: after reconcile(), every bank transaction is the bank_transaction of
\* a FULL match or an element of orphan_bank_transactions, not both; one for
\* which no load qualifies within the lookback window is an orphan.
C7_TransactionClassifiedOnce ==
    Done =>
      \A j \in DOMAIN bank_transactions :
         LET t == bank_transactions[j]
         IN  /\ TimesPaid(t) + TimesOrphan(t) = 1
             /\ (\A i \in DOMAIN driver_schedules :
                    ~Qualifies(driver_schedules[i], t, Rep.lookback_days))
                => TimesOrphan(t) = 1

\* one transaction was matched and another, for which no load qualifies, is
\* an orphan
C7_Witness ==
    /\ Done
    /\ Len(Rep.full_matches) >= 1
    /\ \E j \in DOMAIN bank_transactions :
          /\ TimesOrphan(bank_transactions[j]) = 1
          /\ \E i \in DOMAIN driver_schedules :
                HasAmount(driver_schedules[i])
          /\ \A i \in DOMAIN driver_schedules :
                ~Qualifies(driver_schedules[i], bank_transactions[j],
                           Rep.lookback_days)

\* C8: a reconcile() that directly follows a reconcile() on the same data
\* with the same lookback returns the same matches, missing entries, orphans
\* and summaries, in the same order.
C8_RerunIdentical ==
    [][(Done /\ pc' = "done"
          /\ report'[1].lookback_days = report[1].lookback_days)
        => report' = report]_vars

\* a second run in a row ended with matches, missing entries and orphans
C8_Witness ==
    /\ Done /\ rerun
    /\ Len(Rep.full_matches) >= 1
    /\ Len(Rep.missing_bank_transactions) >= 1
    /\ Len(Rep.orphan_bank_transactions) >= 1

(***************************************************************************)
(* Properties of normalize_driver_name                                     *)
(***************************************************************************)
Normalizedp == npc = "normalized"

\* the upper-cased name without spaces and hyphens
Stripped(s) == StripSeparators(Upper(s))

IsAliasKey(s) ==
    \E i \in DOMAIN driver_name_map :
       StripSeparators(driver_name_map[i].key) = Stripped(s)

BIG_RICH == <<"B","I","G"," ","R","I","C","H">>
BigRich == <<"B","i","g","R","i","c","h">>

\* C9: normalize(normalize(x)) = normalize(x) for every name x, and
\* "BIG RICH", "BigRich" and "BIGRICH" all normalize to "Rich".
C9_Idempotent ==
    Normalizedp =>
      /\ renormalized = normalized
      /\ normalize_driver_name(name_normalized) = name_normalized
      /\ name \in {BIG_RICH, BigRich, BIGRICH} => name_normalized = Rich
      /\ respelled \in {BIG_RICH, BigRich, BIGRICH} => normalized = Rich

\* a respelling of an alias was normalized to its canonical name, which is
\* not the respelling itself
C9_Witness ==
    /\ Normalizedp
    /\ name = BigRich
    /\ respelled # name
    /\ normalized = Rich
    /\ renormalized = Rich

\* C10: two names that are the same string after upper-casing and removing
\* spaces and hyphens have the same normalization, whether or not that
\* string is a key of the alias table.
C10_SpellingsEqual ==
    (Normalizedp /\ Stripped(name) = Stripped(respelled))
       => name_normalized = normalized

\* C10 as amended: the two normalizations are equal when the common string
\* is a key of the alias table (keys stripped alike); when it is not, each
\* name is returned as it was written, so they are equal only if the two
\* names are.
C10_SpellingsEqualForAliases ==
    (Normalizedp /\ Stripped(name) = Stripped(respelled)) =>
       /\ IsAliasKey(name) => name_normalized = normalized
       /\ ~IsAliasKey(name) =>
             /\ name_normalized = name
             /\ normalized = respelled

\* an alias written in two ways, and a respelling of a name that is no alias
C10_Witness ==
    /\ Normalizedp
    /\ respelled # name
    /\ IsAliasKey(name)
    /\ name_normalized = normalized
    /\ edits = MaxEdits

\* C11: a name whose upper-cased form without spaces and hyphens is no key
\* of the alias table is returned unchanged.
C11_PassThrough ==
    Normalizedp =>
      /\ ~IsAliasKey(respelled) => normalized = respelled
      /\ ~IsAliasKey(name) => name_normalized = name

\* a name that is no alias, written with separators and lower-case letters,
\* came back as it was written
C11_Witness ==
    /\ Normalizedp
    /\ ~IsAliasKey(respelled)
    /\ edits = MaxEdits
    /\ respelled # Stripped(respelled)
    /\ normalized = respelled

(***************************************************************************)
(* Further properties of reconcile()                                       *)
(***************************************************************************)
\* C12: after reconcile(), orphan_payments holds every payment remittance
\* of the input, and no FULL match refers to a payment.
C12_PaymentsAreOrphans ==
    Done =>
      /\ Ids(Rep.orphan_payments) = Ids(payment_remittances)
      /\ Len(Rep.orphan_payments) = Len(payment_remittances)
      /\ \A m \in DOMAIN Rep.full_matches :
            Rep.full_matches[m].payment_remittance = << >>

\* C17: reconcile() never ends in an exception, whatever the records are
\* (empty collections, loads without amount, transactions without
\* recipient).
C17_NeverRaises == pc # "raised"

\* C18: reconcile() leaves payment_remittances, bank_transactions and
\* driver_schedules the sequences they were before the call.
C18_DataReadOnly ==
    [][pc' \in {"done", "raised"} => UNCHANGED dataVars]_vars

(***************************************************************************)
(* reconcile_loads_payments.py : parse_amount                              *)
(*                                                                         *)
(* A line of a file is its sequence of whitespace-separated parts, each a  *)
(* str.  The amount texts are drawn over digits, ".", ",", "$" and         *)
(* letters; Decimal(text) succeeds on digits with at most one ".".         *)
(***************************************************************************)
Digits == <<"0","1","2","3","4","5","6","7","8","9">>

IsDigit(c) == \E i \in DOMAIN Digits : Digits[i] = c
DigitValue(c) == (CHOOSE i \in DOMAIN Digits : Digits[i] = c) - 1

\* "x in s" for a character
HasChar(s, c) == \E i \in DOMAIN s : s[i] = c

\* amount_str.replace('$', '').replace(',', '').strip()
Cleaned(amount_str) == Remove(Remove(Remove(amount_str, "$"), ","), " ")

\* Decimal(cleaned) does not raise
IsDecimalText(cleaned) ==
    /\ \A i \in DOMAIN cleaned : IsDigit(cleaned[i]) \/ cleaned[i] = "."
    /\ \E i \in DOMAIN cleaned : IsDigit(cleaned[i])
    /\ Cardinality({i \in DOMAIN cleaned : cleaned[i] = "."}) <= 1

\* the number written by a sequence of digits
RECURSIVE DigitsValue(_)
DigitsValue(ds) ==
    IF ds = << >> THEN 0
    ELSE 10 * DigitsValue(SubSeq(ds, 1, Len(ds) - 1)) + DigitValue(ds[Len(ds)])

\* Decimal(cleaned) in tenths of a cent, for at most three decimals
DecimalValue(cleaned) ==
    LET dots == {i \in DOMAIN cleaned : cleaned[i] = "."}
        dot == IF dots = {} THEN Len(cleaned) + 1 ELSE CHOOSE i \in dots : TRUE
        whole == SubSeq(cleaned, 1, dot - 1)
        frac == SubSeq(cleaned, dot + 1, Len(cleaned))
        padded == SubSeq(frac \o <<"0","0","0">>, 1, 3)
    IN  1000 * DigitsValue(whole) + DigitsValue(padded)

\* parse_amount(amount_str): the Decimal returned, which is Decimal('0.00')
\* for an empty string and for a text Decimal() rejects
parse_amount(amount_str) ==
    IF amount_str = << >> THEN 0
    ELSE IF IsDecimalText(Cleaned(amount_str))
         THEN DecimalValue(Cleaned(amount_str))
         ELSE 0

(***************************************************************************)
(* reconcile_loads_payments.py : the lines of the files and their parsers  *)
(***************************************************************************)
RPM == <<"R","P","M">>
Tulsa == <<"T","u","l","s","a">>
OKC == <<"O","K","C">>
RM1A == <<"R","M","1","A">>
RM1 == <<"R","M","1">>
X9 == <<"X","9">>
Usd130 == <<"$","1","3","0",".","0","0">>
Usd75 == <<"$","7","5",".","0","0">>
Usd13O == <<"$","1","3","O",".","0","0">>
Txt130 == <<"1","3","0",".","0","0">>
Txt130_01 == <<"1","3","0",".","0","1">>
Txt73_12 == <<"7","3",".","1","2">>
Txt726_33 == <<"7","2","6",".","3","3">>

\* lines of a schedule file: the date the line starts with (<< >> when it
\* starts with none) and the parts of the rest; the fourth has an amount
\* that is no number, the fifth no "$"
LoadLines ==
    {[date |-> <<"10/1/2025">>, parts |-> <<RPM, Tulsa, OKC, RM1A, Usd130>>],
     [date |-> <<"10/2/2025">>, parts |-> <<RPM, Tulsa, OKC, RM1A, Usd75>>],
     [date |-> <<"10/1/2025">>, parts |-> <<RPM, Tulsa, OKC, X9, Usd130>>],
     [date |-> <<"10/3/2025">>, parts |-> <<RPM, Tulsa, OKC, RM1, Usd13O>>],
     [date |-> <<"10/3/2025">>, parts |-> <<RPM, Tulsa, OKC, X9, Txt130>>]}

\* lines of a statement file: the date, the text in parentheses (<< >> when
\* there is none) and the numbers with two decimals, in order
DepositLines ==
    {[date |-> <<"Apr 01">>, load_ref |-> <<RM1A>>, numbers |-> <<Txt130, Txt726_33>>],
     [date |-> <<"Apr 02">>, load_ref |-> <<RM1>>, numbers |-> <<Txt73_12, Txt726_33>>],
     [date |-> <<"Apr 03">>, load_ref |-> << >>, numbers |-> <<Txt130, Txt726_33>>],
     [date |-> <<"Apr 04">>, load_ref |-> << >>, numbers |-> <<Txt130_01, Txt726_33>>],
     [date |-> <<"Apr 05">>, load_ref |-> <<X9>>, numbers |-> <<Txt726_33>>]}

\* Payment(payment_ref, payment_amount) of a remittance file
PaymentBlocks == {[payment_ref |-> "1000123", payment_amount |-> 1200000]}

\* parse_loads_file on one line: << >> or the one Load it appends; amount_text
\* is the part the amount was read from (no attribute of Load)
parse_loads_line(line) ==
    LET parts == line.parts
        with_usd == {i \in DOMAIN parts : HasChar(parts[i], "$")}
        amount_idx == Min(with_usd)
        pickup_dropoff == SubSeq(parts, 2, amount_idx - 2)
    IN  IF line.date = << >> \/ Len(parts) < 5 \/ with_usd = {} THEN << >>
        ELSE IF amount_idx <= 1 THEN << >>
        ELSE << [date |-> line.date[1],
                 company |-> parts[1],
                 pickup |-> IF Len(pickup_dropoff) >= 1
                            THEN pickup_dropoff[1] ELSE << >>,
                 dropoff |-> IF Len(pickup_dropoff) >= 2
                             THEN pickup_dropoff[2] ELSE << >>,
                 load_num |-> parts[amount_idx - 1],
                 amount |-> parse_amount(parts[amount_idx]),
                 amount_text |-> parts[amount_idx]] >>

\* parse_deposits_file on one line: << >> or the one Deposit it appends
parse_deposits_line(line) ==
    LET numbers == line.numbers
        n == Len(numbers)
    IN  IF line.date = << >> \/ n < 2 THEN << >>
        ELSE << [date |-> line.date[1],
                 amount |-> parse_amount(numbers[n - 1]),
                 balance |-> parse_amount(numbers[n]),
                 load_ref |-> line.load_ref,
                 amount_text |-> numbers[n - 1]] >>

(***************************************************************************)
(* reconcile_loads_payments.py : reconcile_data                            *)
(***************************************************************************)
\* "a in b" on two str
IsSubstr(a, b) ==
    \E i \in 1..(Len(b) - Len(a) + 1) : SubSeq(b, i, i + Len(a) - 1) = a

\* {dep.load_ref: dep for dep in deposits if dep.load_ref}: the items of the
\* dict in its order; a key keeps the place of its first deposit and holds
\* the last deposit that carries it
deposits_by_ref(deposits) ==
    LET RECURSIVE Build(_, _)
        Build(i, items) ==
            IF i > Len(deposits) THEN items
            ELSE LET dep == deposits[i]
                     at == {k \in DOMAIN items : <<items[k].dep_ref>> = dep.load_ref}
                 IN  IF dep.load_ref = << >> \/ dep.load_ref = << << >> >>
                     THEN Build(i + 1, items)
                     ELSE IF at # {}
                     THEN Build(i + 1, [items EXCEPT ![Min(at)].deposit = dep])
                     ELSE Build(i + 1, Append(items,
                              [dep_ref |-> dep.load_ref[1], deposit |-> dep]))
    IN  Build(1, << >>)

\* an exact tier that finds nothing
ExactTierNone(load, items) == {}

\* "load.load_num in deposits_by_ref": the items under that key
ExactTier(load, items) ==
    {k \in DOMAIN items : items[k].dep_ref = load.load_num}

\* the items the partial loop accepts
PartialTier(load, items) ==
    {k \in DOMAIN items :
        /\ items[k].dep_ref # << >>
        /\ load.load_num # << >>
        /\ \/ IsSubstr(items[k].dep_ref, load.load_num)
           \/ IsSubstr(load.load_num, items[k].dep_ref)}

\* abs(deposit.amount - load.amount) < Decimal('0.01')
AmountMatches(deposit, load) == Abs(deposit.amount - load.amount) < Cent

\* an amount tier that takes a deposit a second time
AlreadyReconciledNever(deposit, reconciled) == FALSE

\* "deposit not in [r.deposit for r in reconciled]", negated
AlreadyReconciled(deposit, reconciled) ==
    \E r \in DOMAIN reconciled : reconciled[r].deposit.id = deposit.id

\* the deposits the amount loop accepts
AmountTier(load, deposits, reconciled) ==
    {i \in DOMAIN deposits :
        /\ AmountMatches(deposits[i], load)
        /\ ~AlreadyReconciled(deposits[i], reconciled)}

\* one pass of "for load in loads": << >> or the one Reconciliation
MatchLoad(load, deposits, items, reconciled) ==
    LET exact == ExactTier(load, items)
        partial == PartialTier(load, items)
        amount == AmountTier(load, deposits, reconciled)
    IN  IF exact # {}
        THEN << [load |-> load, payment |-> << >>,
                 deposit |-> items[Min(exact)].deposit,
                 match_confidence |-> "high",
                 match_reason |-> <<"Load # matched to deposit reference",
                                    load.load_num>>] >>
        ELSE IF partial # {}
        THEN << [load |-> load, payment |-> << >>,
                 deposit |-> items[Min(partial)].deposit,
                 match_confidence |-> "medium",
                 match_reason |-> <<"Partial load # match", load.load_num,
                                    items[Min(partial)].dep_ref>>] >>
        ELSE IF amount # {}
        THEN << [load |-> load, payment |-> << >>,
                 deposit |-> deposits[Min(amount)],
                 match_confidence |-> "low",
                 match_reason |-> <<"Amount match", load.amount>>] >>
        ELSE << >>

\* every deposit reported as unmatched
UnmatchedDepositsAll(deposits, reconciled) == deposits

\* the deposits no Reconciliation holds, in input order
UnmatchedDeposits(deposits, reconciled) ==
    LET RECURSIVE Keep(_)
        Keep(i) ==
            IF i > Len(deposits) THEN << >>
            ELSE IF AlreadyReconciled(deposits[i], reconciled)
                 THEN Keep(i + 1)
                 ELSE <<deposits[i]>> \o Keep(i + 1)
    IN  Keep(1)

\* reconcile_data(loads, payments, deposits): the four lists it returns
reconcile_data(loads, payments, deposits) ==
    LET items == deposits_by_ref(deposits)
        RECURSIVE Loop(_, _, _)
        Loop(i, reconciled, unmatched_loads) ==
            IF i > Len(loads)
            THEN [reconciled |-> reconciled,
                  unmatched_loads |-> unmatched_loads,
                  unmatched_payments |-> payments,
                  unmatched_deposits |-> UnmatchedDeposits(deposits, reconciled)]
            ELSE LET recon == MatchLoad(loads[i], deposits, items, reconciled)
                 IN  IF recon # << >>
                     THEN Loop(i + 1, reconciled \o recon, unmatched_loads)
                     ELSE Loop(i + 1, reconciled,
                               Append(unmatched_loads, loads[i]))
    IN  Loop(1, << >>, << >>)

(***************************************************************************)
(* SpecRef: main of reconcile_loads_payments.py reads files, then          *)
(* reconciles                                                              *)
(***************************************************************************)
\* files of one or two lines
Files(lines) == {<<a>> : a \in lines} \cup {<<a, b>> : a, b \in lines}

\* the records of a file, one line after the other
RECURSIVE ParseLines(_, _)
ParseLines(file, kind) ==
    IF file = << >> THEN << >>
    ELSE (IF kind = "loads" THEN parse_loads_line(Head(file))
          ELSE parse_deposits_line(Head(file)))
         \o ParseLines(Tail(file), kind)

\* all.extend(parsed), the records numbered by the place they take
Extend(all, parsed) ==
    all \o [k \in DOMAIN parsed |-> WithId(parsed[k], Len(all) + k)]

RefRecords == Len(all_loads) + Len(all_payments) + Len(all_deposits)

InitRef ==
    /\ payment_remittances = << >>
    /\ bank_transactions = << >>
    /\ driver_schedules = << >>
    /\ report = << >>
    /\ rerun = FALSE
    /\ pc = "off"
    /\ name = << >> /\ respelled = << >> /\ edits = 0
    /\ name_normalized = << >> /\ normalized = << >> /\ renormalized = << >>
    /\ npc = "off"
    /\ all_loads = << >> /\ all_payments = << >> /\ all_deposits = << >>
    /\ result = << >>
    /\ rpc = "read"
    /\ BankIdle /\ CleanIdle

\* loads = parse_loads_file(filename); all_loads.extend(loads)
parse_loads_file ==
    /\ rpc = "read"
    /\ \E file \in Files(LoadLines) :
          /\ RefRecords + Len(file) <= MaxLines
          /\ all_loads' = Extend(all_loads, ParseLines(file, "loads"))
    /\ UNCHANGED <<cleanVars, engineVars, normVars, bankVars,
                   all_payments, all_deposits, result, rpc>>

\* payments = parse_payments_file(filename); all_payments.extend(payments)
parse_payments_file ==
    /\ rpc = "read"
    /\ RefRecords < MaxLines
    /\ \E p \in PaymentBlocks :
          all_payments' = Extend(all_payments, <<p>>)
    /\ UNCHANGED <<cleanVars, engineVars, normVars, bankVars,
                   all_loads, all_deposits, result, rpc>>

\* deposits = parse_deposits_file(filename); all_deposits.extend(deposits)
parse_deposits_file ==
    /\ rpc = "read"
    /\ \E file \in Files(DepositLines) :
          /\ RefRecords + Len(file) <= MaxLines
          /\ all_deposits' = Extend(all_deposits, ParseLines(file, "deposits"))
    /\ UNCHANGED <<cleanVars, engineVars, normVars, bankVars,
                   all_loads, all_payments, result, rpc>>

\* reconciled, unmatched_loads, unmatched_payments, unmatched_deposits =
\*     reconcile_data(all_loads, all_payments, all_deposits)
reconcile_files ==
    /\ rpc = "read"
    /\ result' = <<reconcile_data(all_loads, all_payments, all_deposits)>>
    /\ rpc' = "reconciled"
    /\ UNCHANGED <<cleanVars, engineVars, normVars, bankVars,
                   all_loads, all_payments, all_deposits>>

NextRef ==
    \/ parse_loads_file
    \/ parse_payments_file
    \/ parse_deposits_file
    \/ reconcile_files

SpecRef == InitRef /\ [][NextRef]_vars

(***************************************************************************)
(* Claims on reconcile_data and the file parsers                           *)
(***************************************************************************)
Reconciled == rpc = "reconciled"
Res == result[1]

\* the Reconciliations of the result that hold the load numbered l
ReconsOf(l) == {r \in DOMAIN Res.reconciled : Res.reconciled[r].load.id = l}

\* the deposits, by place in all_deposits, whose reference equals the
\* reference of load l
ExactDeposits(l) ==
    {d \in DOMAIN all_deposits :
        all_deposits[d].load_ref = <<all_loads[l].load_num>>}

\* the deposits whose reference contains, or is contained in, the reference
\* of load l
ContainingDeposits(l) ==
    {d \in DOMAIN all_deposits :
        /\ all_deposits[d].load_ref # << >>
        /\ \/ IsSubstr(all_deposits[d].load_ref[1], all_loads[l].load_num)
           \/ IsSubstr(all_loads[l].load_num, all_deposits[d].load_ref[1])}

\* the deposits held by the Reconciliations of the loads before load l
Prior(l) ==
    {Res.reconciled[r].deposit.id :
        r \in {q \in DOMAIN Res.reconciled : Res.reconciled[q].load.id < l}}

\* the deposits whose amount is less than a cent from the amount of load l
\* and which no earlier Reconciliation holds
AmountCandidates(l) ==
    {d \in DOMAIN all_deposits :
        /\ Abs(all_deposits[d].amount - all_loads[l].amount) < Cent
        /\ d \notin Prior(l)}

\* C13: a load whose reference equals the reference of some deposit is
\* reconciled with confidence high to a deposit of that reference, whatever
\* the amounts, the dates and the other deposits are.
C13_ExactIsHigh ==
    Reconciled =>
      \A l \in DOMAIN all_loads :
         ExactDeposits(l) # {} =>
           /\ ReconsOf(l) # {}
           /\ \A r \in ReconsOf(l) :
                 /\ Res.reconciled[r].match_confidence = "high"
                 /\ Res.reconciled[r].deposit.id \in ExactDeposits(l)

\* an exact match whose amounts differ, while an earlier deposit matches the
\* load partially
C13_Witness ==
    /\ Reconciled
    /\ \E r \in DOMAIN Res.reconciled :
          LET rec == Res.reconciled[r]
          IN  /\ rec.match_confidence = "high"
              /\ rec.deposit.amount # rec.load.amount
              /\ \E d \in ContainingDeposits(rec.load.id) :
                    /\ d < rec.deposit.id
                    /\ d \notin ExactDeposits(rec.load.id)

\* C14: a load without an exact reference match, for which some deposit has
\* a reference containing or contained in the load's, is reconciled with
\* confidence medium to the first such deposit in deposit input order.
C14_FirstPartialInInputOrder ==
    Reconciled =>
      \A l \in DOMAIN all_loads :
         (ExactDeposits(l) = {} /\ ContainingDeposits(l) # {}) =>
           /\ ReconsOf(l) # {}
           /\ \A r \in ReconsOf(l) :
                 /\ Res.reconciled[r].match_confidence = "medium"
                 /\ Res.reconciled[r].deposit.id = Min(ContainingDeposits(l))

\* C15: a load is reconciled with confidence low only when no deposit
\* reference equals, contains or is contained in its reference; such a load
\* takes the first deposit in input order whose amount is less than a cent
\* from its own and which no earlier Reconciliation holds, with confidence
\* low, and is in unmatched_loads when there is no such deposit.
C15_AmountFallback ==
    Reconciled =>
      \A l \in DOMAIN all_loads :
         /\ (\E r \in ReconsOf(l) : Res.reconciled[r].match_confidence = "low")
               => ContainingDeposits(l) = {}
         /\ (ContainingDeposits(l) = {} /\ AmountCandidates(l) # {}) =>
               /\ ReconsOf(l) # {}
               /\ \A r \in ReconsOf(l) :
                     /\ Res.reconciled[r].match_confidence = "low"
                     /\ Res.reconciled[r].deposit.id = Min(AmountCandidates(l))
               /\ \A u \in DOMAIN Res.unmatched_loads :
                     Res.unmatched_loads[u].id # l
         /\ (ContainingDeposits(l) = {} /\ AmountCandidates(l) = {}) =>
               /\ ReconsOf(l) = {}
               /\ \E u \in DOMAIN Res.unmatched_loads :
                     Res.unmatched_loads[u].id = l

\* a load matched by amount to a deposit that is not the first of its amount,
\* the earlier one being held by an earlier Reconciliation
C15_Witness ==
    /\ Reconciled
    /\ \E r \in DOMAIN Res.reconciled :
          LET rec == Res.reconciled[r]
          IN  /\ rec.match_confidence = "low"
              /\ \E d \in Prior(rec.load.id) :
                    /\ d < rec.deposit.id
                    /\ Abs(all_deposits[d].amount - rec.load.amount) < Cent

\* C16: no deposit is the deposit of two Reconciliations and no load is the
\* load of two Reconciliations.
C16_AtMostOneReconciliation ==
    Reconciled =>
      \A r1, r2 \in DOMAIN Res.reconciled :
         r1 # r2 =>
           /\ Res.reconciled[r1].deposit.id # Res.reconciled[r2].deposit.id
           /\ Res.reconciled[r1].load.id # Res.reconciled[r2].load.id

\* C20: every Load and every Deposit was read from an amount text that is a
\* number.
C20_NoRecordOfUnparsedAmount ==
    /\ \A l \in DOMAIN all_loads :
          IsDecimalText(Cleaned(all_loads[l].amount_text))
    /\ \A d \in DOMAIN all_deposits :
          IsDecimalText(Cleaned(all_deposits[d].amount_text))

(***************************************************************************)
(* reconciliation_parser.py : BankStatementParser.parse_file               *)
(***************************************************************************)
\* lines of a statement: one that zelle_pattern matches, with its groups;
\* the "STATEMENT m-d-yyyy" heading; a TruckSmarter ACH withdrawal, which
\* zelle_pattern does not match
ZelleLine(month, day, amount_str, recipient) ==
    [kind |-> "zelle", month |-> month, day |-> day,
     amount_str |-> amount_str, recipient |-> recipient]
StatementHeading(year) == [kind |-> "heading", year |-> year]
AchLine ==
    [kind |-> "ach",
     text |-> <<"A","c","h"," ","t","r","a","n","s","f","e","r"," ","v","i","a",
                " ","T","r","u","c","k","S","m","a","r","t","e","r"," ","a","p","p">>]

StatementLines ==
    {ZelleLine(3, 5, <<"5","0","0",".","0","0">>, <<"R","I","C","H"," ">>),
     ZelleLine(3, 6, <<"1",",","2","5","0",".","0","0">>,
               <<"S","T","E","V","E"," ","M","A","R","T","I","N"," ">>),
     ZelleLine(2, 30, <<"5","0","0",".","0","0">>, <<"R","I","C","H"," ">>),
     StatementHeading(2024),
     StatementHeading(2025),
     AchLine}

\* datetime.now().year on the day of the run
NowYears == {2025, 2026}

\* s.strip() on a str of letters and spaces
RECURSIVE Strip(_)
Strip(s) ==
    IF s = << >> THEN s
    ELSE IF Head(s) = " " THEN Strip(Tail(s))
    ELSE IF s[Len(s)] = " " THEN Strip(SubSeq(s, 1, Len(s) - 1))
    ELSE s

\* datetime(year, month, day) raises ValueError unless the day exists
DaysInMonth(year, month) ==
    IF month \in {4, 6, 9, 11} THEN 30
    ELSE IF month # 2 THEN 31
    ELSE IF (year % 4 = 0 /\ year % 100 # 0) \/ year % 400 = 0 THEN 29
    ELSE 28
IsDate(year, month, day) ==
    /\ month \in 1..12
    /\ day \in 1..DaysInMonth(year, month)

\* re.search(r'STATEMENT (\d+)-\d+-(\d{4})', content): the years of the
\* headings, in order; the first one is used
HeadingYears(content) ==
    LET RECURSIVE Years(_)
        Years(i) ==
            IF i > Len(content) THEN << >>
            ELSE IF content[i].kind = "heading"
                 THEN <<content[i].year>> \o Years(i + 1)
                 ELSE Years(i + 1)
    IN  Years(1)
StatementYear(content, now_year) ==
    IF HeadingYears(content) # << >> THEN HeadingYears(content)[1] ELSE now_year

ZelleTo == <<"Z","e","l","l","e"," ","t","o"," ">>

\* the BankTransaction built from one match of zelle_pattern
ZelleTransaction(line, year) ==
    [transaction_date |-> <<year, line.month, line.day>>,
     amount |-> DecimalValue(Remove(line.amount_str, ",")),
     description |-> ZelleTo \o Strip(line.recipient),
     recipient |-> Strip(line.recipient),
     transaction_type |-> "ZELLE"]

\* parse_file(filepath): [transactions, raised]
bank_parse_file(content, now_year) ==
    LET year == StatementYear(content, now_year)
        RECURSIVE Matches(_)
        Matches(i) ==
            IF i > Len(content) THEN << >>
            ELSE IF content[i].kind = "zelle"
                 THEN <<content[i]>> \o Matches(i + 1)
                 ELSE Matches(i + 1)
        matches == Matches(1)
        bad == {k \in DOMAIN matches :
                   ~IsDate(year, matches[k].month, matches[k].day)}
    IN  IF bad # {}
        THEN [transactions |-> << >>, raised |-> TRUE]
        ELSE [transactions |->
                 [k \in DOMAIN matches |-> ZelleTransaction(matches[k], year)],
              raised |-> FALSE]

(***************************************************************************)
(* SpecBank: a statement file is written, then parsed                      *)
(***************************************************************************)
InitBank ==
    /\ payment_remittances = << >>
    /\ bank_transactions = << >>
    /\ driver_schedules = << >>
    /\ report = << >>
    /\ rerun = FALSE
    /\ pc = "off"
    /\ name = << >> /\ respelled = << >> /\ edits = 0
    /\ name_normalized = << >> /\ normalized = << >> /\ renormalized = << >>
    /\ npc = "off"
    /\ RefIdle /\ CleanIdle
    /\ statement = << >>
    /\ transactions = << >>
    /\ bpc = "file"

\* the bank's export gains a line
statement_line ==
    /\ bpc = "file"
    /\ Len(statement) < MaxStatementLines
    /\ \E line \in StatementLines : statement' = Append(statement, line)
    /\ UNCHANGED <<cleanVars, engineVars, normVars, refVars, transactions, bpc>>

\* transactions = bank_parser.parse_file(filepath)
parse_file ==
    /\ bpc = "file"
    /\ \E now_year \in NowYears :
          LET parsed == bank_parse_file(statement, now_year)
          IN  /\ transactions' = parsed.transactions
              /\ bpc' = IF parsed.raised THEN "raised" ELSE "parsed"
    /\ UNCHANGED <<cleanVars, engineVars, normVars, refVars, statement>>

NextBank ==
    \/ statement_line
    \/ parse_file

SpecBank == InitBank /\ [][NextBank]_vars

TruckSmarter == <<"T","r","u","c","k","S","m","a","r","t","e","r">>

\* C19: every transaction parse_file returns has transaction_type
\* "ACH_WITHDRAWAL" and a description that contains "TruckSmarter".
C19_OnlyTruckSmarterAch ==
    bpc = "parsed" =>
      \A t \in DOMAIN transactions :
         /\ transactions[t].transaction_type = "ACH_WITHDRAWAL"
         /\ IsSubstr(TruckSmarter, transactions[t].description)

(***************************************************************************)
(* Properties of the report: summaries, totals, soundness, order           *)
(***************************************************************************)
\* the sum of f over the finite set S
RECURSIVE SumOf(_, _)
SumOf(f, S) ==
    IF S = {} THEN 0
    ELSE LET x == CHOOSE x \in S : TRUE
         IN  f[x] + SumOf(f, S \ {x})

\* the loads, by place in driver_schedules, whose normalized driver is d
LoadsOf(d) ==
    {i \in DOMAIN driver_schedules :
        normalize_driver_name(driver_schedules[i].driver) = d}

\* the amount a load adds to a sum: nothing when it has none
LoadAmount ==
    [i \in DOMAIN driver_schedules |->
        IF driver_schedules[i].amount = << >> THEN 0
        ELSE driver_schedules[i].amount[1]]

\* a summary whose scheduled figures are not paid plus unpaid
Inconsistent(sm) ==
    \/ sm.scheduled_loads # sm.paid_loads + sm.unpaid_loads
    \/ sm.scheduled_amount # sm.paid_amount + sm.unpaid_amount

\* C21: a call of reconcile() that returned a report did not publish a
\* driver summary whose scheduled count or amount differs from paid plus
\* unpaid: such a run ends in an exception, with no report.
C21_NoInconsistentSummaryPublished ==
    (pc = "done" /\ report # << >>) =>
      ~ \E d \in DOMAIN report[1].driver_summaries :
           Inconsistent(report[1].driver_summaries[d])

\* C22: the keys of driver_summaries are the normalized driver names of the
\* loads, and the entry of d counts and sums all loads of d (scheduled), the
\* loads of d in a FULL match (paid) and the loads of d in
\* missing_bank_transactions (unpaid).
C22_SummaryContents ==
    Done =>
      /\ DOMAIN Rep.driver_summaries =
            {normalize_driver_name(driver_schedules[i].driver) :
                i \in DOMAIN driver_schedules}
      /\ \A d \in DOMAIN Rep.driver_summaries :
            LET sm == Rep.driver_summaries[d]
                paid == {i \in LoadsOf(d) : TimesMatched(driver_schedules[i]) > 0}
                unpaid == {i \in LoadsOf(d) : TimesMissing(driver_schedules[i]) > 0}
            IN  /\ sm.scheduled_loads = Cardinality(LoadsOf(d))
                /\ sm.scheduled_amount = SumOf(LoadAmount, LoadsOf(d))
                /\ sm.paid_loads = Cardinality(paid)
                /\ sm.paid_amount = SumOf(LoadAmount, paid)
                /\ sm.unpaid_loads = Cardinality(unpaid)
                /\ sm.unpaid_amount = SumOf(LoadAmount, unpaid)
                /\ DOMAIN sm = {"scheduled_loads", "scheduled_amount",
                                "paid_loads", "paid_amount",
                                "unpaid_loads", "unpaid_amount"}

\* the driver written "BIGRICH" has a paid and an unpaid load under the key
\* "Rich", and a second driver has a summary of its own
C22_Witness ==
    /\ Done
    /\ Rich \in DOMAIN Rep.driver_summaries
    /\ Steve \in DOMAIN Rep.driver_summaries
    /\ \E i \in DOMAIN driver_schedules : driver_schedules[i].driver = BIGRICH
    /\ Rep.driver_summaries[Rich].paid_loads = 1
    /\ Rep.driver_summaries[Rich].unpaid_loads = 1
    /\ Rep.driver_summaries[Rich].unpaid_amount = 500000

\* C23: total_scheduled_amount is the sum of scheduled_amount over the
\* driver summaries and the sum of paid_amount + unpaid_amount over them.
C23_TotalsAddUp ==
    Done =>
      /\ Rep.total_scheduled_amount =
            SumOf([d \in DOMAIN Rep.driver_summaries |->
                      Rep.driver_summaries[d].scheduled_amount],
                  DOMAIN Rep.driver_summaries)
      /\ Rep.total_scheduled_amount =
            SumOf([d \in DOMAIN Rep.driver_summaries |->
                      Rep.driver_summaries[d].paid_amount
                        + Rep.driver_summaries[d].unpaid_amount],
                  DOMAIN Rep.driver_summaries)

\* two drivers, a paid and an unpaid load, and a load without amount
C23_Witness ==
    /\ Done
    /\ Cardinality(DOMAIN Rep.driver_summaries) = 2
    /\ Len(Rep.full_matches) = 1
    /\ Len(Rep.missing_bank_transactions) = 1
    /\ \E i \in DOMAIN driver_schedules : driver_schedules[i].amount = << >>
    /\ Rep.total_scheduled_amount = 1000000

\* C24: in every FULL match the load has an amount, driver and recipient
\* normalize to the same name, the amounts are less than a cent apart and
\* the dates at most lookback_days apart.
C24_FullMatchSound ==
    Done =>
      \A m \in DOMAIN Rep.full_matches :
         LET e == Rep.full_matches[m].driver_entry
             t == Rep.full_matches[m].bank_transaction
         IN  /\ e.amount # << >>
             /\ t.recipient # << >>
             /\ normalize_driver_name(e.driver)
                  = normalize_driver_name(t.recipient[1])
             /\ Abs(t.amount - e.amount[1]) < Cent
             /\ Abs(t.transaction_date - e.date) <= Rep.lookback_days

\* a load was matched to a transaction half a cent off while a transaction
\* of the same driver and day, one cent off, stayed an orphan
C24_Witness ==
    /\ Done
    /\ \E m \in DOMAIN Rep.full_matches :
          LET e == Rep.full_matches[m].driver_entry
              t == Rep.full_matches[m].bank_transaction
          IN  /\ Abs(t.amount - e.amount[1]) = 5
              /\ Len(driver_schedules) = 1
              /\ \E o \in DOMAIN Rep.orphan_bank_transactions :
                    LET u == Rep.orphan_bank_transactions[o]
                    IN  /\ u.recipient = t.recipient
                        /\ u.transaction_date = t.transaction_date
                        /\ Abs(u.amount - e.amount[1]) = Cent

\* s is in ascending order of key, records of equal key in the order in
\* which they were added
InDateOrder(s, key) ==
    \A i, j \in DOMAIN s :
       i < j => \/ s[i][key] < s[j][key]
                \/ (s[i][key] = s[j][key] /\ s[i].id < s[j].id)

\* C25: full_matches and missing_bank_transactions are in ascending load
\* date order, orphan_bank_transactions in ascending transaction date order,
\* and records of equal date are in their input order.
C25_ReportInDateOrder ==
    Done =>
      /\ InDateOrder([m \in DOMAIN Rep.full_matches |->
                        Rep.full_matches[m].driver_entry], "date")
      /\ InDateOrder(Rep.missing_bank_transactions, "date")
      /\ InDateOrder(Rep.orphan_bank_transactions, "transaction_date")

\* the load added last has the earliest date and is reported first, before
\* two missing loads of one date, which are in input order; a transaction is
\* an orphan
C25_Witness ==
    /\ Done
    /\ Len(Rep.missing_bank_transactions) = 3
    /\ Rep.missing_bank_transactions[1].id = 3
    /\ Rep.missing_bank_transactions[2].date = Rep.missing_bank_transactions[3].date
    /\ Len(Rep.orphan_bank_transactions) = 1

\* C26: after reconcile(90), no load of missing_bank_transactions and
\* transaction of orphan_bank_transactions qualify for each other.
C26_MatchingMaximal ==
    (Done /\ Rep.lookback_days = DefaultLookback) =>
      \A i \in DOMAIN Rep.missing_bank_transactions,
         j \in DOMAIN Rep.orphan_bank_transactions :
         ~Qualifies(Rep.missing_bank_transactions[i],
                    Rep.orphan_bank_transactions[j], DefaultLookback)

\* a load matched at exactly 90 days, while another load of the driver is
\* missing next to an orphan transaction that is 91 days from it
C26_Witness ==
    /\ Done /\ Rep.lookback_days = DefaultLookback
    /\ \E m \in DOMAIN Rep.full_matches :
          DateDiff(Rep.full_matches[m].bank_transaction,
                   Rep.full_matches[m].driver_entry) = DefaultLookback
    /\ \E i \in DOMAIN Rep.missing_bank_transactions,
          j \in DOMAIN Rep.orphan_bank_transactions :
          /\ Qualifies(Rep.missing_bank_transactions[i],
                       Rep.orphan_bank_transactions[j], DefaultLookback + 1)
          /\ ~Qualifies(Rep.missing_bank_transactions[i],
                        Rep.orphan_bank_transactions[j], DefaultLookback)

(***************************************************************************)
(* Properties of the order in which reconcile() works                      *)
(***************************************************************************)
\* the transactions, by place, that qualify for the load e in the window of
\* the run
QualifyingFor(e) ==
    {j \in DOMAIN bank_transactions :
        Qualifies(e, bank_transactions[j], Rep.lookback_days)}

\* C27: when two loads both qualify for one transaction, which is the only
\* transaction that qualifies for either and for which no third load
\* qualifies, the load that is first in date order is FULL matched with it
\* and the other load is missing.
C27_GreedyInLoadOrder ==
    Done =>
      \A i, k \in DOMAIN driver_schedules, j \in DOMAIN bank_transactions :
         LET first == driver_schedules[i]
             later == driver_schedules[k]
             t == bank_transactions[j]
         IN  ( /\ i < k
               /\ QualifyingFor(first) = {j}
               /\ QualifyingFor(later) = {j}
               /\ \A n \in DOMAIN driver_schedules :
                     j \in QualifyingFor(driver_schedules[n]) => n \in {i, k} )
             => /\ \E m \in DOMAIN Rep.full_matches :
                      /\ Rep.full_matches[m].driver_entry.id = first.id
                      /\ Rep.full_matches[m].bank_transaction.id = t.id
                /\ TimesMissing(later) = 1
                /\ TimesMatched(later) = 0

\* reconcile(lookback) on a fresh ReconciliationData that received the
\* records in the order of their ids
FreshReport(lookback) ==
    LET payments == Sort(Sort(payment_remittances, "id"), "payment_date")
        txns == Sort(Sort(bank_transactions, "id"), "transaction_date")
        scheds == Sort(Sort(driver_schedules, "id"), "date")
        m == MatchSchedules(scheds, txns, lookback)
    IN  [lookback_days |-> lookback,
         total_remittances_received |->
            Sum([i \in DOMAIN payments |-> payments[i].payment_amount]),
         total_paid_to_drivers |->
            Sum([i \in DOMAIN txns |-> txns[i].amount]),
         total_scheduled_amount |-> Sum(Amounts(scheds)),
         full_matches |-> m.full_matches,
         missing_bank_transactions |-> m.missing_bank_transactions,
         orphan_bank_transactions |->
            OrphanBankTransactions(txns, m.matched_bank_trans),
         driver_summaries |->
            build_driver_summaries(scheds, m.full_matches,
                                   m.missing_bank_transactions),
         orphan_payments |-> find_orphan_payments]

\* C28: the report of the last reconcile() equals the report of one
\* reconcile() on a fresh ReconciliationData that received the same records
\* in the same order, whatever runs came in between.
C28_IntermediateRunsIrrelevant ==
    Done => Rep = FreshReport(Rep.lookback_days)

\* reconcile() was called again on data the run before it had reordered:
\* the load added first is the last of three, the other two share a date,
\* and a load is matched
C28_Witness ==
    /\ Done /\ rerun
    /\ Len(driver_schedules) = 3
    /\ driver_schedules[3].id = 1
    /\ driver_schedules[1].date = driver_schedules[2].date
    /\ Len(Rep.full_matches) >= 1

(***************************************************************************)
(* Properties of reconcile_data: every record is accounted for             *)
(***************************************************************************)
\* the places of the sequence s that hold the record numbered n
PlacesOf(s, n) == {i \in DOMAIN s : s[i].id = n}

\* the Reconciliations that hold the deposit numbered d
ReconsWith(d) ==
    {r \in DOMAIN Res.reconciled : Res.reconciled[r].deposit.id = d}

\* C29: every load is the load of one Reconciliation or one element of
\* unmatched_loads, not both; a deposit is in unmatched_deposits, once, if
\* and only if no Reconciliation holds it; the records of the result are
\* records of the input, unchanged.
C29_EveryRecordAccounted ==
    Reconciled =>
      /\ \A l \in DOMAIN all_loads :
            Cardinality(ReconsOf(l))
              + Cardinality(PlacesOf(Res.unmatched_loads, l)) = 1
      /\ \A d \in DOMAIN all_deposits :
            Cardinality(PlacesOf(Res.unmatched_deposits, d))
              = IF ReconsWith(d) = {} THEN 1 ELSE 0
      /\ \A r \in DOMAIN Res.reconciled :
            /\ Res.reconciled[r].load.id \in DOMAIN all_loads
            /\ Res.reconciled[r].load = all_loads[Res.reconciled[r].load.id]
            /\ Res.reconciled[r].deposit.id \in DOMAIN all_deposits
            /\ Res.reconciled[r].deposit
                 = all_deposits[Res.reconciled[r].deposit.id]
      /\ \A u \in DOMAIN Res.unmatched_loads :
            /\ Res.unmatched_loads[u].id \in DOMAIN all_loads
            /\ Res.unmatched_loads[u] = all_loads[Res.unmatched_loads[u].id]
      /\ \A u \in DOMAIN Res.unmatched_deposits :
            /\ Res.unmatched_deposits[u].id \in DOMAIN all_deposits
            /\ Res.unmatched_deposits[u]
                 = all_deposits[Res.unmatched_deposits[u].id]
      /\ Res.unmatched_payments = all_payments

\* a load reconciled, a load unmatched, a deposit unmatched, a deposit held
C29_Witness ==
    /\ Reconciled
    /\ Len(Res.reconciled) = 1
    /\ Len(Res.unmatched_loads) = 1
    /\ Len(Res.unmatched_deposits) = 1
    /\ Len(all_deposits) = 2

(***************************************************************************)
(* reconcile_from_clean_data.py : the parsers                              *)
(***************************************************************************)
UpperLetter(c) == \E k \in DOMAIN UpperCase : UpperCase[k] = c
AllDigits(s) == s # << >> /\ \A k \in DOMAIN s : IsDigit(s[k])

\* \d+[A-Z]? as the whole of s
DigitsThenLetter(s) ==
    \/ AllDigits(s)
    \/ /\ Len(s) >= 2
       /\ AllDigits(SubSeq(s, 1, Len(s) - 1))
       /\ UpperLetter(s[Len(s)])

\* extract_load_ref(description) for a description with the text inner in
\* its one pair of parentheses (<< >>: no parentheses): << >> is None
extract_load_ref(inner) ==
    IF inner = << >> THEN << >>
    ELSE LET text == inner[1]
         IN  IF /\ Len(text) >= 3
                /\ text[1] = "R" /\ text[2] \in {"M", "N"}
                /\ DigitsThenLetter(SubSeq(text, 3, Len(text)))
             THEN <<text>>
             ELSE IF AllDigits(text) THEN <<text>>
             ELSE << >>

Txt0 == <<"0",".","0","0">>
N627908 == <<"6","2","7","9","0","8">>

\* lines of the Thread Bank statement that start with a date: month and
\* day, the words of the description, the text in parentheses within it and
\* the numbers with two decimals that follow
ThreadLines ==
    {[month |-> "Apr", day |-> "01", words |-> <<"SmartTrucker", "Purchase">>,
      inner |-> <<RM1A>>, numbers |-> <<Txt130, Txt726_33>>],
     [month |-> "Apr", day |-> "02", words |-> <<"SmartTrucker", "Purchase">>,
      inner |-> <<RM1>>, numbers |-> <<Txt73_12, Txt726_33>>],
     [month |-> "Apr", day |-> "03", words |-> <<"SmartTrucker", "Purchase">>,
      inner |-> <<RM1>>, numbers |-> <<Txt0, Txt130, Txt726_33>>],
     [month |-> "Apr", day |-> "04", words |-> <<"SmartTrucker", "Purchase">>,
      inner |-> <<X9>>, numbers |-> <<Txt130, Txt726_33>>],
     [month |-> "Apr", day |-> "05", words |-> <<"Ach transfer">>,
      inner |-> <<N627908>>, numbers |-> <<Txt130, Txt726_33>>],
     [month |-> "Apr", day |-> "06", words |-> <<"Interest">>,
      inner |-> << >>, numbers |-> <<Txt0, Txt726_33>>]}

\* "x if x else None" on a Decimal: << >> for None
NoneIfZero(x) == IF x = 0 THEN << >> ELSE <<x>>

\* Decimal(numbers[k].replace(',', ''))
ThreadAmount(text) == DecimalValue(Remove(text, ","))

\* the default year of parse_thread_bank_statement
DefaultYear == 2025

\* parse_thread_bank_statement on one line: << >> or the one Transaction
parse_thread_line(line) ==
    LET numbers == line.numbers
        n == Len(numbers)
        is_ach == \E w \in DOMAIN line.words :
                     line.words[w] \in {"Ach transfer", "ACH transfer"}
        two == n = 2
        withdrawal == IF two
                      THEN (IF is_ach THEN <<ThreadAmount(numbers[1])>> ELSE << >>)
                      ELSE NoneIfZero(ThreadAmount(numbers[1]))
        deposit == IF two
                   THEN (IF is_ach THEN << >> ELSE <<ThreadAmount(numbers[1])>>)
                   ELSE NoneIfZero(ThreadAmount(numbers[2]))
    IN  IF n = 0 \/ line.words = << >> THEN << >>
        ELSE IF line.words \in {<<"Interest">>, <<"Opening Balance">>} THEN << >>
        ELSE IF n = 1
        THEN << [date |-> <<line.month, line.day, DefaultYear>>,
                 description |-> line.words,
                 deposit |-> << >>, withdrawal |-> << >>,
                 balance |-> ThreadAmount(numbers[n]),
                 load_ref |-> extract_load_ref(line.inner)] >>
        ELSE << [date |-> <<line.month, line.day, DefaultYear>>,
                 description |-> line.words,
                 deposit |-> IF deposit # << >> /\ deposit[1] # 0
                             THEN deposit ELSE << >>,
                 withdrawal |-> IF withdrawal # << >> /\ withdrawal[1] # 0
                                THEN withdrawal ELSE << >>,
                 balance |-> ThreadAmount(numbers[n]),
                 load_ref |-> extract_load_ref(line.inner)] >>

\* the drivers whose schedule files are read
DriverFiles == {"Rich", "Steve"}

\* the part a schedule line's amount is read from: the first with a "$",
\* or after four parts the first that starts as a number with two decimals;
\* 0 when there is none
StartsAsAmount(part) ==
    \E k \in 1..(Len(part) - 3) :
       /\ \A c \in 1..k : IsDigit(part[c]) \/ part[c] = ","
       /\ part[k + 1] = "."
       /\ IsDigit(part[k + 2]) /\ IsDigit(part[k + 3])
CleanAmountIdx(parts) ==
    LET found == {i \in DOMAIN parts :
                     HasChar(parts[i], "$") \/ (i > 4 /\ StartsAsAmount(parts[i]))}
    IN  IF found = {} THEN 0 ELSE Min(found)

\* parse_driver_schedules on one line of the file of driver_name, after the
\* loads parsed so far: << >> or the one DriverLoad it appends
parse_driver_line(driver_name, line, loads) ==
    LET parts == line.parts
        amount_idx == CleanAmountIdx(parts)
        amount_str == Remove(Remove(parts[amount_idx], "$"), ",")
        load_num == parts[amount_idx - 1]
    IN  IF line.date = << >> \/ Len(parts) < 5 THEN << >>
        ELSE IF amount_idx <= 1 THEN << >>
        ELSE IF ~IsDecimalText(amount_str) THEN << >>
        ELSE IF \E k \in DOMAIN loads :
                   /\ loads[k].driver = driver_name
                   /\ loads[k].date = line.date[1]
                   /\ loads[k].load_num = load_num
        THEN << >>
        ELSE << [date |-> line.date[1],
                 driver |-> driver_name,
                 company |-> parts[1],
                 pickup |-> parts[2],
                 dropoff |-> parts[3],
                 load_num |-> load_num,
                 amount |-> DecimalValue(amount_str)] >>

(***************************************************************************)
(* reconcile_from_clean_data.py : reconcile                                *)
(***************************************************************************)
\* {t.load_ref: t for t in transactions if t.load_ref and t.deposit}: the
\* items of the dict in its order
trans_by_ref(txns) ==
    LET RECURSIVE Build(_, _)
        Build(i, items) ==
            IF i > Len(txns) THEN items
            ELSE LET t == txns[i]
                     at == {k \in DOMAIN items : <<items[k].ref>> = t.load_ref}
                 IN  IF t.load_ref = << >> \/ t.load_ref = << << >> >>
                        \/ t.deposit = << >> \/ t.deposit = <<0>>
                     THEN Build(i + 1, items)
                     ELSE IF at # {}
                     THEN Build(i + 1, [items EXCEPT ![Min(at)].trans = t])
                     ELSE Build(i + 1, Append(items,
                              [ref |-> t.load_ref[1], trans |-> t]))
    IN  Build(1, << >>)

\* one pass of "for load in driver_loads": << >> or the one matched entry;
\* the dicts of to_dict() keep the id of the object they were made from
clean_match_load(load, items) ==
    LET exact == {k \in DOMAIN items : items[k].ref = load.load_num}
        partial == {k \in DOMAIN items :
                       /\ items[k].ref # << >>
                       /\ load.load_num # << >>
                       /\ \/ IsSubstr(items[k].ref, load.load_num)
                          \/ IsSubstr(load.load_num, items[k].ref)}
    IN  IF exact # {}
        THEN << [load |-> load, transaction |-> items[Min(exact)].trans,
                 match_type |-> "exact_load_number"] >>
        ELSE IF partial # {}
        THEN << [load |-> load, transaction |-> items[Min(partial)].trans,
                 match_type |-> "partial_load_number"] >>
        ELSE << >>

\* reconcile(transactions, driver_loads): the three lists it returns
clean_reconcile(txns, loads) ==
    LET items == trans_by_ref(txns)
        RECURSIVE Loop(_, _, _)
        Loop(i, matched, unmatched_loads) ==
            IF i > Len(loads)
            THEN [matched |-> matched, unmatched_loads |-> unmatched_loads]
            ELSE LET entry == clean_match_load(loads[i], items)
                 IN  IF entry # << >>
                     THEN Loop(i + 1, matched \o entry, unmatched_loads)
                     ELSE Loop(i + 1, matched, Append(unmatched_loads, loads[i]))
        done == Loop(1, << >>, << >>)
        matched_refs == {done.matched[m].transaction.load_ref :
                            m \in DOMAIN done.matched}
    IN  [matched |-> done.matched,
         unmatched_transactions |->
            SelectSeq(txns, LAMBDA t :
               /\ t.deposit # << >> /\ t.deposit # <<0>>
               /\ t.load_ref # << >> /\ t.load_ref # << << >> >>
               /\ t.load_ref \notin matched_refs),
         unmatched_loads |-> done.unmatched_loads]

(***************************************************************************)
(* SpecClean: main of reconcile_from_clean_data.py reads the statement and *)
(* the schedules, then reconciles                                          *)
(***************************************************************************)
InitClean ==
    /\ payment_remittances = << >>
    /\ bank_transactions = << >>
    /\ driver_schedules = << >>
    /\ report = << >>
    /\ rerun = FALSE
    /\ pc = "off"
    /\ name = << >> /\ respelled = << >> /\ edits = 0
    /\ name_normalized = << >> /\ normalized = << >> /\ renormalized = << >>
    /\ npc = "off"
    /\ RefIdle /\ BankIdle
    /\ thread_transactions = << >>
    /\ driver_loads = << >>
    /\ clean_result = << >>
    /\ cpc = "read"

\* transactions = parse_thread_bank_statement('March-Oct.txt'), one line of
\* the file at a time
parse_thread_bank_statement ==
    /\ cpc = "read"
    /\ driver_loads = << >>
    /\ Len(thread_transactions) < MaxCleanLines
    /\ \E line \in ThreadLines :
          thread_transactions' =
             Extend(thread_transactions, parse_thread_line(line))
    /\ UNCHANGED <<engineVars, normVars, refVars, bankVars,
                   driver_loads, clean_result, cpc>>

\* driver_loads = parse_driver_schedules(driver_files), one line of one
\* file at a time
parse_driver_schedules ==
    /\ cpc = "read"
    /\ Len(thread_transactions) + Len(driver_loads) < MaxCleanLines
    /\ \E driver_name \in DriverFiles, line \in LoadLines :
          driver_loads' =
             Extend(driver_loads,
                    parse_driver_line(driver_name, line, driver_loads))
    /\ UNCHANGED <<engineVars, normVars, refVars, bankVars,
                   thread_transactions, clean_result, cpc>>

\* matched, unmatched_trans, unmatched_loads =
\*     reconcile(transactions, driver_loads)
reconcile_clean ==
    /\ cpc = "read"
    /\ clean_result' = <<clean_reconcile(thread_transactions, driver_loads)>>
    /\ cpc' = "reconciled"
    /\ UNCHANGED <<engineVars, normVars, refVars, bankVars,
                   thread_transactions, driver_loads>>

NextClean ==
    \/ parse_thread_bank_statement
    \/ parse_driver_schedules
    \/ reconcile_clean

SpecClean == InitClean /\ [][NextClean]_vars

\* the dict to_dict() makes of the object a is the dict it makes of b
SameDict(a, b) == [a EXCEPT !.id = 0] = [b EXCEPT !.id = 0]

\* C30: every transaction with a deposit amount and a load reference is the
\* transaction of a matched entry or an element of unmatched_transactions,
\* and every load is in exactly one of matched and unmatched_loads.
C30_EveryDepositAccounted ==
    cpc = "reconciled" =>
      LET res == clean_result[1]
      IN  /\ \A t \in DOMAIN thread_transactions :
                ( /\ thread_transactions[t].deposit # << >>
                  /\ thread_transactions[t].load_ref # << >> )
                => \/ \E m \in DOMAIN res.matched :
                         SameDict(res.matched[m].transaction,
                                  thread_transactions[t])
                   \/ \E u \in DOMAIN res.unmatched_transactions :
                         SameDict(res.unmatched_transactions[u],
                                  thread_transactions[t])
          /\ \A l \in DOMAIN driver_loads :
                Cardinality({m \in DOMAIN res.matched :
                                res.matched[m].load.id = l})
                  + Cardinality(PlacesOf(res.unmatched_loads, l)) = 1

====
